---- MODULE Spec2Model ----
(***************************************************************************)
(* FlipSolver22.cpp: randomized walk over the flip graph of a bilinear     *)
(* decomposition.  The model follows main(): the multimap (uniques,        *)
(* unarray, avail, twoplusd, twoplusl) built by flipadd/flipdel, the flip  *)
(* step with its two collapse blocks, the plus move, the budget tick and   *)
(* the final output, for symm = 3 and symm = 6.                            *)
(***************************************************************************)
EXTENDS Integers, Sequences, FiniteSets, TLC

(***************************************************************************)
(* Bounds of the model.                                                    *)
(***************************************************************************)
\* nomuls <= MaxSlots3 for symm = 3, nomuls <= MaxSlots6 for symm = 6
MaxSlots3 == 9
MaxSlots6 == 12
\* the main loop is not entered with more than MaxFlips flips done
MaxFlips == 12
\* vlong is unsigned arithmetic modulo 2^VLongBits (64 in the program)
VLongBits == 20
\* random words handed to the plus scheduler are drawn from 0..MaxRand
MaxRand == 1
\* the distance between two recovery snapshots, 5000000000 flips in the program
\* (lines 447 and 684), scaled down so that a run within MaxFlips crosses it
RecoveryStep == 6
\* the number of sextuples of the one input beyond MaxSlots6
WideOrbits == 3

VLongMod == 2 ^ VLongBits
vlong(x) == x % VLongMod

(***************************************************************************)
(* Bit utilities.                                                          *)
(***************************************************************************)
RECURSIVE BitXor(_, _)
BitXor(a, b) ==
    IF a = 0 THEN b
    ELSE IF b = 0 THEN a
    ELSE ((a + b) % 2) + 2 * BitXor(a \div 2, b \div 2)

RECURSIVE BitAnd(_, _)
BitAnd(a, b) ==
    IF a = 0 \/ b = 0 THEN 0
    ELSE ((a % 2) * (b % 2)) + 2 * BitAnd(a \div 2, b \div 2)

\* while (n) { c++; n &= (n - 1); }
RECURSIVE bitcount(_)
bitcount(var) ==
    IF var = 0 THEN 0 ELSE 1 + bitcount(BitAnd(var, var - 1))

\* while (n && m) { m--; n &= (n - 1); } return m;
RECURSIVE bitlimit(_, _)
bitlimit(var, exceed) ==
    IF var # 0 /\ exceed # 0
    THEN bitlimit(BitAnd(var, var - 1), exceed - 1)
    ELSE exceed

(***************************************************************************)
(* Partition of the slots: partner maps and the permit matrix.             *)
(***************************************************************************)
me(i) == IF i % 3 = 0 THEN i + 2 ELSE i - 1
mf(i) == IF i % 3 = 2 THEN i - 2 ELSE i + 1
permit(i, j, sy) == IF i \div sy = j \div sy THEN 0 ELSE 1
\* the paired slot of a sextuple
pair6(s) == IF s % 6 < 3 THEN s + 3 ELSE s - 3

(***************************************************************************)
(* Pair tables combs, ps, qs (0-based as in the program).  The rows are    *)
(* pushed for x = 1, 2, ...; combs[l] is the size of the tables after the  *)
(* rows x < l, so the entries below combs[l] are the rows x < l.           *)
(***************************************************************************)
\* the entries pushed for one x: (x,0),(0,x),(x,1),(1,x),...,(x,x-1),(x-1,x)
PairRow(x) ==
    [k \in 1..(2 * x) |->
        IF k % 2 = 1 THEN <<x, (k - 1) \div 2>> ELSE <<(k - 2) \div 2, x>>]
RECURSIVE PairTable(_, _)
\* the tables after the rows x..lim-1: ps is the first, qs the second component
PairTable(x, lim) ==
    IF x >= lim THEN <<>> ELSE PairTable(x, lim - 1) \o PairRow(lim - 1)
\* combs[l]
combs(l) == IF l < 2 THEN 0 ELSE Len(PairTable(1, l))
\* ps[x] and qs[x] for x < combs[l]
ps(x, l) == PairTable(1, l)[x + 1][1]
qs(x, l) == PairTable(1, l)[x + 1][2]

(***************************************************************************)
(* The multimap.  A multimap value is the record                           *)
(*   uniques  : fgdict, key -> block offset in unarray                     *)
(*   unarray  : block offset -> the live slot list of the block            *)
(*              (unarray[b] is its length, unarray[b+1..b+l] its entries)  *)
(*   avail    : stack of free block offsets                                *)
(*   twoplusd : fgdict, key -> index in twoplusl (0-based)                 *)
(*   twoplusl : the colliding values                                       *)
(*   ub       : an operation was called outside its contract (lookup of an *)
(*              absent key, removal of an absent slot, pop of an empty     *)
(*              stack, write past a block): undefined behaviour            *)
(* An fgdict is modelled by the finite function it stores; with keys below *)
(* the modulus 65213 every bucket holds at most one key.                   *)
(***************************************************************************)
MapPut(f, k, v) == [x \in DOMAIN f \cup {k} |-> IF x = k THEN v ELSE f[x]]
MapDel(f, k) == [x \in DOMAIN f \ {k} |-> f[x]]
Last(s) == s[Len(s)]
Front(s) == SubSeq(s, 1, Len(s) - 1)
SeqRange(s) == {s[i] : i \in 1..Len(s)}
\* position of the last occurrence of r in s
LastPos(s, r) == CHOOSE i \in 1..Len(s) : s[i] = r /\ \A j \in (i + 1)..Len(s) : s[j] # r
\* the backward shifting loop of flipdel: drops the last occurrence, keeps the order
DropSlot(s, r) ==
    LET i == LastPos(s, r) IN SubSeq(s, 1, i - 1) \o SubSeq(s, i + 1, Len(s))

Broken(M) == [M EXCEPT !.ub = TRUE]

\* a swap-with-last that forgets to re-index the moved value in twoplusd
TwoplusRemoveNoReindex(M, v) ==
    IF v \notin DOMAIN M.twoplusd \/ Len(M.twoplusl) = 0 THEN Broken(M)
    ELSE LET rsi == M.twoplusd[v]
             rsl == Last(M.twoplusl)
         IN  IF rsl \notin DOMAIN M.twoplusd \/ rsi >= Len(M.twoplusl) THEN Broken(M)
             ELSE [M EXCEPT !.twoplusd = MapDel(M.twoplusd, v),
                            !.twoplusl = Front([M.twoplusl EXCEPT ![rsi + 1] = rsl])]

\* the l == 2 branch of flipdel: v leaves twoplusl by swap-with-last
TwoplusRemove(M, v) ==
    IF v \notin DOMAIN M.twoplusd \/ Len(M.twoplusl) = 0 THEN Broken(M)
    ELSE LET rsi == M.twoplusd[v]
             rsl == Last(M.twoplusl)
         IN  IF rsl \notin DOMAIN M.twoplusd \/ rsi >= Len(M.twoplusl) THEN Broken(M)
             ELSE LET d1 == MapPut(M.twoplusd, rsl, rsi)
                      l1 == [M.twoplusl EXCEPT ![rsi + 1] = rsl]
                  IN  [M EXCEPT !.twoplusd = MapDel(d1, v),
                                !.twoplusl = Front(l1)]

\* a flipdel that does not hand the block of an emptied list back to avail
flipdelKeepsBlock(M, r, v, nomuls) ==
    IF M.ub \/ v \notin DOMAIN M.uniques THEN Broken(M)
    ELSE LET b == M.uniques[v]
             l == Len(M.unarray[b])
             M1 == IF l = 2 THEN TwoplusRemove(M, v) ELSE M
         IN  IF M1.ub THEN M1
             ELSE IF l = 1
             THEN [M1 EXCEPT !.uniques = MapDel(M1.uniques, v),
                             !.unarray[b] = <<>>]
             ELSE IF r \notin SeqRange(M1.unarray[b]) THEN Broken(M1)
             ELSE [M1 EXCEPT !.unarray[b] = DropSlot(M1.unarray[b], r)]

flipdel(M, r, v, nomuls) ==
    IF M.ub \/ v \notin DOMAIN M.uniques THEN Broken(M)
    ELSE LET b == M.uniques[v]
             l == Len(M.unarray[b])
             M1 == IF l = 2 THEN TwoplusRemove(M, v) ELSE M
         IN  IF M1.ub THEN M1
             ELSE IF l = 1
             THEN [M1 EXCEPT !.avail = Append(M1.avail, b),
                             !.uniques = MapDel(M1.uniques, v),
                             !.unarray[b] = <<>>]
             ELSE IF r \notin SeqRange(M1.unarray[b]) THEN Broken(M1)
             ELSE [M1 EXCEPT !.unarray[b] = DropSlot(M1.unarray[b], r)]

flipadd(M, r, v, nomuls) ==
    IF M.ub THEN M
    ELSE IF v \in DOMAIN M.uniques
    THEN LET b == M.uniques[v]
             l == Len(M.unarray[b])
             M1 == IF l = 1
                   THEN [M EXCEPT !.twoplusd = MapPut(M.twoplusd, v, Len(M.twoplusl)),
                                  !.twoplusl = Append(M.twoplusl, v)]
                   ELSE M
         IN  IF l >= nomuls THEN Broken(M)
             ELSE [M1 EXCEPT !.unarray[b] = Append(M1.unarray[b], r)]
    ELSE IF Len(M.avail) = 0 THEN Broken(M)
    ELSE LET b == Last(M.avail)
         IN  [M EXCEPT !.avail = Front(M.avail),
                       !.uniques = MapPut(M.uniques, v, b),
                       !.unarray[b] = <<r>>]

\* the multimap before the first insertion
EmptyMap(nomuls) ==
    [uniques |-> <<>>, twoplusd |-> <<>>, twoplusl |-> <<>>,
     avail |-> [i \in 1..nomuls |-> (i - 1) * (nomuls + 1)],
     unarray |-> [b \in {i * (nomuls + 1) : i \in 0..(nomuls - 1)} |-> <<>>],
     ub |-> FALSE]

\* one round of the initialisation loop, slot i holding m
InitAdd(M, i, m) ==
    IF m > 0
    THEN IF m \in DOMAIN M.uniques
         THEN LET b == M.uniques[m]
                  M1 == [M EXCEPT !.unarray[b] = Append(M.unarray[b], i)]
              IN  IF m \notin DOMAIN M.twoplusd
                  THEN [M1 EXCEPT !.twoplusd = MapPut(M.twoplusd, m, Len(M.twoplusl)),
                                  !.twoplusl = Append(M.twoplusl, m)]
                  ELSE M1
         ELSE LET b == Last(M.avail)
              IN  [M EXCEPT !.avail = Front(M.avail),
                            !.uniques = MapPut(M.uniques, m, b),
                            !.unarray[b] = <<i>>]
    ELSE M

RECURSIVE InitMap(_, _, _, _)
\* the multimap after the rounds i..n-1 of the initialisation loop from M
InitMap(M, i, mu, n) ==
    IF i >= n THEN M ELSE InitMap(InitAdd(M, i, mu[i]), i + 1, mu, n)

\* achieved after the initialisation loop
InitAchieved(mu) == Cardinality({i \in DOMAIN mu : mu[i] > 0})

(***************************************************************************)
(* Termination policy.                                                     *)
(***************************************************************************)
\* C integer division (truncation towards zero)
CDiv(a, b) ==
    IF (a >= 0) = (b > 0)
    THEN (IF a >= 0 THEN a ELSE 0 - a) \div (IF b > 0 THEN b ELSE 0 - b)
    ELSE 0 - ((IF a >= 0 THEN a ELSE 0 - a) \div (IF b > 0 THEN b ELSE 0 - b))

\* the int steps that updatelimit divides by (0: the division is undefined)
limitsteps(termination, achieved, target, sy) ==
    IF termination = 0 \/ termination = 2 THEN 1
    ELSE IF termination = 1 THEN CDiv(achieved - target, sy)
    ELSE IF achieved > termination THEN CDiv(achieved - termination, sy)
    ELSE CDiv(achieved - target, sy)

\* updatelimit for steps # 0; steps is converted to vlong by the division
updatelimit(lim, fl, termination, sp, ach, tgt, sy, flim) ==
    LET steps == vlong(limitsteps(termination, ach, tgt, sy))
        slimit == vlong(sp * flim) \div 100
    IN  IF termination = 0 THEN flim
        ELSE IF termination = 1 THEN vlong(fl + vlong(flim - fl) \div steps)
        ELSE IF termination = 2 THEN vlong(fl + flim)
        ELSE IF ach > termination THEN vlong(fl + vlong(slimit - fl) \div steps)
        ELSE vlong(fl + vlong(flim - fl) \div steps)

\* a plus schedule without the cap maxplus
plusscheduleNoCap(ach, maxpl, flim, plim, fl, sy, rnd) ==
    IF plim < 0 THEN vlong(fl + sy + (rnd % vlong(0 - 2 * plim)))
    ELSE vlong(fl + plim)

\* the plus schedule: the three-way assignment to plusby, rnd the word mt() returns
plusschedule(ach, maxpl, flim, plim, fl, sy, rnd) ==
    IF ach >= maxpl THEN vlong(flim * 1007)
    ELSE IF plim < 0 THEN vlong(fl + sy + (rnd % vlong(0 - 2 * plim)))
    ELSE vlong(fl + plim)

(***************************************************************************)
(* State of main().                                                        *)
(*   pc: "start" before line 435, "flip" at the top of the main loop,      *)
(*   "collapse_p", "collapse_q", "plus", "tick" inside an iteration,       *)
(*   "plus_go" between the recovery snapshot and the plus move,            *)
(*   "done" after the loop, "exit" after the final output;                 *)
(*   "hung": a retry loop that no random draw can leave;                   *)
(*   "crashed": an integer division by zero trapped;                       *)
(*   "ub": a multimap operation ran outside its contract.                  *)
(***************************************************************************)
VARIABLES nomuls, symm, target, flimit, plimit, termination, maxplus, split,
          maxsize, muls, best, uniques, unarray, avail, twoplusd, twoplusl,
          flips, plus, achieved, minmuls, limit, plusby, rcode, recovery, pc, loc,
          file

inputs == <<nomuls, symm, target, flimit, plimit, termination, maxplus, split, maxsize>>
mapvars == <<uniques, unarray, avail, twoplusd, twoplusl>>
vars == <<inputs, mapvars, muls, best, flips, plus, achieved, minmuls, limit,
          plusby, rcode, recovery, pc, loc, file>>

\* the multimap of the current state
Map == [uniques |-> uniques, unarray |-> unarray, avail |-> avail,
        twoplusd |-> twoplusd, twoplusl |-> twoplusl, ub |-> FALSE]
SetMapInit(M) ==
    /\ uniques = M.uniques
    /\ unarray = M.unarray
    /\ avail = M.avail
    /\ twoplusd = M.twoplusd
    /\ twoplusl = M.twoplusl
SetMap(M) ==
    /\ uniques' = M.uniques
    /\ unarray' = M.unarray
    /\ avail' = M.avail
    /\ twoplusd' = M.twoplusd
    /\ twoplusl' = M.twoplusl

\* the locals p, q, mpe, ... of an iteration, before the sampler has set them
NoLoc == [p |-> 0, q |-> 0, mpd |-> 0, mpe |-> 0, mpf |-> 0, mqd |-> 0, mqe |-> 0,
          mqf |-> 0, mpen |-> 0, mqfn |-> 0, mppd |-> 0, mppe |-> 0, mppf |-> 0,
          mqqd |-> 0, mqqe |-> 0, mqqf |-> 0, mppen |-> 0, mqqfn |-> 0]

(***************************************************************************)
(* Inputs.                                                                 *)
(***************************************************************************)
\* the rank-1 terms the input decompositions are made of
Terms3 == {<<0, 0, 0>>, <<1, 2, 3>>, <<1, 2, 1>>, <<1, 1, 3>>, <<2, 2, 2>>}
Terms6 == {<<0, 0, 0>>, <<1, 1, 1>>, <<1, 1, 2>>}
Terms(sy) == IF sy = 3 THEN Terms3 ELSE Terms6
SlotCounts(sy) ==
    {n \in 1..(IF sy = 3 THEN MaxSlots3 ELSE MaxSlots6) : n % sy = 0}
\* the plimit field of the input file, as written there (it may carry a sign)
PlimitInputs(sy, ms) == IF ms < 0 THEN {2 * sy, 0 - sy} ELSE {2 * sy}
\* the maxplus field: no cap below the slot count, or a cap of one orbit of terms
MaxplusInputs(sy, n, ms, te) == IF ms = 0 /\ te = 0 THEN {n, sy} ELSE {n}
\* the flimit field: a budget of two iterations, or no budget at all
FlimitInputs(sy, ms, te) == IF ms = 0 /\ te = 0 THEN {2 * sy, 0} ELSE {2 * sy}

\* the inputs within MaxSlots3 and MaxSlots6
BoundedInit ==
    /\ symm \in {3, 6}
    /\ nomuls \in SlotCounts(symm)
    /\ \E trs \in [0..((nomuls \div 3) - 1) -> Terms(symm)] :
          muls = [i \in 0..(nomuls - 1) |-> trs[i \div 3][(i % 3) + 1]]
    /\ best = muls
    /\ maxsize \in {0 - 1, 0, 2}
    /\ termination \in (IF maxsize = 0 THEN {0, 1} ELSE {0})
    /\ target \in (IF termination = 1 THEN {0, symm} ELSE {0})
    /\ flimit \in FlimitInputs(symm, maxsize, termination)
    /\ maxplus \in MaxplusInputs(symm, nomuls, maxsize, termination)
    /\ split = 50
    /\ flips = 0
    /\ SetMapInit(InitMap(EmptyMap(nomuls), 0, muls, nomuls))
    /\ achieved = InitAchieved(muls)
    /\ plus = 0
    /\ minmuls = 0
    /\ limit = 0
    /\ plusby = 0
    /\ rcode = 0
    /\ recovery = 0
    /\ pc = "start"
    /\ loc = NoLoc
    /\ \E pl \in PlimitInputs(symm, maxsize) :
          \* operator>> into the unsigned plimit negates a signed field modulo 2^w
          /\ plimit = vlong(pl)
          /\ file = [kind |-> "input", rcode |-> 0, flips |-> 0, plimit |-> pl,
                     achieved |-> 0, minmuls |-> 0, plus |-> 0, vals |-> muls]

\* one wider input: symm = 6 with WideOrbits equal sextuples, termination = 1 and
\* a budget flimit below one iteration's six flips
WideInit ==
    /\ symm = 6
    /\ nomuls = 6 * WideOrbits
    /\ muls = [i \in 0..(nomuls - 1) |-> 1]
    /\ best = muls
    /\ maxsize = 0
    /\ termination = 1
    /\ target = 0
    /\ flimit = 4
    /\ maxplus = nomuls
    /\ split = 50
    /\ flips = 0
    /\ SetMapInit(InitMap(EmptyMap(nomuls), 0, muls, nomuls))
    /\ achieved = InitAchieved(muls)
    /\ plus = 0
    /\ minmuls = 0
    /\ limit = 0
    /\ plusby = 0
    /\ rcode = 0
    /\ recovery = 0
    /\ pc = "start"
    /\ loc = NoLoc
    /\ plimit = 2 * symm
    /\ file = [kind |-> "input", rcode |-> 0, flips |-> 0, plimit |-> plimit,
               achieved |-> 0, minmuls |-> 0, plus |-> 0, vals |-> muls]

Init == BoundedInit \/ WideInit

(***************************************************************************)
(* Lines 435-451: the scalars set before the main loop.                    *)
(***************************************************************************)
Start ==
    /\ pc = "start"
    /\ plus' = 0
    /\ rcode' = 0
    /\ \E rnd \in 0..MaxRand :
          plusby' = plusschedule(achieved, maxplus, flimit, plimit, flips, symm, rnd)
    /\ minmuls' = achieved
    /\ IF limitsteps(termination, achieved, target, symm) = 0
       THEN \* division by zero: the trap, or the quotient 0 of a non-trapping divide
            \/ pc' = "crashed" /\ limit' = limit
            \/ pc' = "flip" /\ limit' = flips
       ELSE /\ pc' = "flip"
            /\ limit' = updatelimit(limit, flips, termination, split, achieved,
                                    target, symm, flimit)
    /\ recovery' = RecoveryStep
    /\ UNCHANGED <<inputs, mapvars, muls, best, flips, achieved, loc, file>>

(***************************************************************************)
(* The flip sampler.                                                       *)
(***************************************************************************)
\* the slot list of the colliding value v
slots(v) == unarray[uniques[v]]

\* the pairs (p, q) one random word can select from the slot list L:
\* by bit 16 for l = 2, by x = (sample >> 16) % combs[l] otherwise
ListPairs(L) ==
    IF Len(L) = 2
    THEN {<<L[1], L[2]>>, <<L[2], L[1]>>}
    ELSE LET tab == PairTable(1, Len(L))
         IN  {<<L[tab[x + 1][1] + 1], L[tab[x + 1][2] + 1]>> : x \in 0..(Len(tab) - 1)}

\* the pairs one random word can select in the current state
SamplePairs == UNION {ListPairs(slots(twoplusl[j])) : j \in 1..Len(twoplusl)}

\* the values the sampler loads for the pair (p, q)
Load(p, q) ==
    LET pp == pair6(p)
        qq == pair6(q)
        six == symm = 6
    IN  [p |-> p, q |-> q,
         mpd |-> IF six THEN muls[p] ELSE 0,
         mpe |-> muls[me(p)], mpf |-> muls[mf(p)],
         mqd |-> IF six THEN muls[q] ELSE 0,
         mqe |-> muls[me(q)], mqf |-> muls[mf(q)],
         mpen |-> BitXor(muls[me(q)], muls[me(p)]),
         mqfn |-> BitXor(muls[mf(q)], muls[mf(p)]),
         mppd |-> IF six THEN muls[pp] ELSE 0,
         mppe |-> IF six THEN muls[me(pp)] ELSE 0,
         mppf |-> IF six THEN muls[mf(pp)] ELSE 0,
         mqqd |-> IF six THEN muls[qq] ELSE 0,
         mqqe |-> IF six THEN muls[me(qq)] ELSE 0,
         mqqf |-> IF six THEN muls[mf(qq)] ELSE 0,
         mppen |-> IF six THEN BitXor(muls[me(qq)], muls[me(pp)]) ELSE 0,
         mqqfn |-> IF six THEN BitXor(muls[mf(qq)], muls[mf(pp)]) ELSE 0]

\* the test that ends the sampler's retry loop, by maxsize mode
Accept(p, q) ==
    LET mpen == BitXor(muls[me(q)], muls[me(p)])
        mqfn == BitXor(muls[mf(q)], muls[mf(p)])
        psize == bitcount(muls[p]) * bitcount(mpen) * bitcount(muls[mf(p)])
        qsize == bitcount(muls[q]) * bitcount(muls[me(q)]) * bitcount(mqfn)
        exceed == 1 - maxsize
    IN  IF maxsize = 0 THEN permit(p, q, symm) # 0
        ELSE IF maxsize > 0
        THEN permit(p, q, symm) # 0 /\ psize <= maxsize /\ qsize <= maxsize
        ELSE permit(p, q, symm) # 0 /\ bitlimit(mpen, exceed) # 0
             /\ bitlimit(mqfn, exceed) # 0

\* the flip commit: two (symm = 3) or four (symm = 6) flipdel/flipadd pairs
CommitMap(l) ==
    LET A1 == flipadd(flipdel(Map, me(l.p), l.mpe, nomuls), me(l.p), l.mpen, nomuls)
        A2 == IF symm = 6
              THEN flipadd(flipdel(A1, me(pair6(l.p)), l.mppe, nomuls),
                           me(pair6(l.p)), l.mppen, nomuls)
              ELSE A1
        A3 == flipadd(flipdel(A2, mf(l.q), l.mqf, nomuls), mf(l.q), l.mqfn, nomuls)
    IN  IF symm = 6
        THEN flipadd(flipdel(A3, mf(pair6(l.q)), l.mqqf, nomuls),
                     mf(pair6(l.q)), l.mqqfn, nomuls)
        ELSE A3

\* a commit that writes the second new value through me instead of mf
CommitMulsWrongPartner(l) ==
    IF symm = 6
    THEN [muls EXCEPT ![me(l.p)] = l.mpen, ![me(pair6(l.p))] = l.mppen,
                      ![me(l.q)] = l.mqfn, ![me(pair6(l.q))] = l.mqqfn]
    ELSE [muls EXCEPT ![me(l.p)] = l.mpen, ![me(l.q)] = l.mqfn]

\* a commit that stores the second new value in both triples
CommitMulsBothTriples(l) ==
    IF symm = 6
    THEN [muls EXCEPT ![me(l.p)] = l.mpen, ![me(pair6(l.p))] = l.mppen,
                      ![mf(l.q)] = l.mqfn, ![mf(pair6(l.q))] = l.mqqfn,
                      ![mf(l.p)] = l.mqfn]
    ELSE [muls EXCEPT ![me(l.p)] = l.mpen, ![mf(l.q)] = l.mqfn, ![mf(l.p)] = l.mqfn]

CommitMuls(l) ==
    IF symm = 6
    THEN [muls EXCEPT ![me(l.p)] = l.mpen, ![me(pair6(l.p))] = l.mppen,
                      ![mf(l.q)] = l.mqfn, ![mf(pair6(l.q))] = l.mqqfn]
    ELSE [muls EXCEPT ![me(l.p)] = l.mpen, ![mf(l.q)] = l.mqfn]

\* flips += symm; the sampler returns an accepted pair; the commit
Flip ==
    /\ pc = "flip"
    /\ flips < MaxFlips
    /\ Len(twoplusl) > 0
    /\ \E pq \in SamplePairs :
          /\ Accept(pq[1], pq[2])
          /\ LET l == Load(pq[1], pq[2])
                 M == CommitMap(l)
             IN  IF M.ub
                 THEN /\ pc' = "ub"
                      /\ UNCHANGED <<mapvars, muls, loc>>
                 ELSE /\ pc' = "collapse_p"
                      /\ SetMap(M)
                      /\ muls' = CommitMuls(l)
                      /\ loc' = l
    /\ flips' = vlong(flips + symm)
    /\ UNCHANGED <<inputs, recovery, best, plus, achieved, minmuls, limit, plusby,
                   rcode, file>>

\* maxsize # 0: 1000 samples in a row fail the test
SampleFail ==
    /\ pc = "flip"
    /\ flips < MaxFlips
    /\ Len(twoplusl) > 0
    /\ maxsize # 0
    /\ \E pq \in SamplePairs : ~Accept(pq[1], pq[2])
    /\ flips' = vlong(flips + symm)
    /\ rcode' = 6
    /\ pc' = "done"
    /\ UNCHANGED <<inputs, recovery, mapvars, muls, best, plus, achieved, minmuls, limit,
                   plusby, loc, file>>

\* maxsize = 0: no sample passes the test, the while (true) loop never ends
SamplerHang ==
    /\ pc = "flip"
    /\ flips < MaxFlips
    /\ Len(twoplusl) > 0
    /\ maxsize = 0
    /\ \A pq \in SamplePairs : ~Accept(pq[1], pq[2])
    /\ flips' = vlong(flips + symm)
    /\ pc' = "hung"
    /\ UNCHANGED <<inputs, recovery, mapvars, muls, best, plus, achieved, minmuls, limit,
                   plusby, rcode, loc, file>>

\* twoplusl is empty: sample % twoplusl.size() divides by zero
SampleDivZero ==
    /\ pc = "flip"
    /\ flips < MaxFlips
    /\ Len(twoplusl) = 0
    /\ flips' = vlong(flips + symm)
    /\ pc' = "crashed"
    /\ UNCHANGED <<inputs, recovery, mapvars, muls, best, plus, achieved, minmuls, limit,
                   plusby, rcode, loc, file>>

(***************************************************************************)
(* Sequences of multimap calls and of writes to muls.                      *)
(***************************************************************************)
RECURSIVE ApplyOps(_, _, _)
\* ops[i] = <<"del" or "add", slot, value>>, executed in order
ApplyOps(M, ops, n) ==
    IF ops = <<>> THEN M
    ELSE LET o == Head(ops)
             M1 == IF o[1] = "del" THEN flipdel(M, o[2], o[3], n)
                   ELSE flipadd(M, o[2], o[3], n)
         IN  ApplyOps(M1, Tail(ops), n)

RECURSIVE WriteAll(_, _)
\* ws[i] = <<slot, value>>, assigned in order
WriteAll(mu, ws) ==
    IF ws = <<>> THEN mu
    ELSE WriteAll([mu EXCEPT ![Head(ws)[1]] = Head(ws)[2]], Tail(ws))

(***************************************************************************)
(* The collapse blocks.                                                    *)
(***************************************************************************)
\* a trigger check that compares the slots themselves, not their orbits
TriggerOnSlots(M) ==
    \A j \in 1..Len(M.twoplusl) :
        LET L == M.unarray[M.uniques[M.twoplusl[j]]]
        IN  \A i \in 2..Len(L) : L[1] = L[i]

\* every colliding value's slots lie in one orbit
Trigger(M) ==
    \A j \in 1..Len(M.twoplusl) :
        LET L == M.unarray[M.uniques[M.twoplusl[j]]]
        IN  \A i \in 2..Len(L) : L[1] \div symm = L[i] \div symm

\* the condition of the first collapse block
CollapsesP ==
    IF symm = 6
    THEN loc.mpen = 0
         \/ (loc.mpd = loc.mppd /\ loc.mpen = loc.mppen /\ loc.mpf = loc.mppf)
    ELSE loc.mpen = 0

\* the condition of the second collapse block
CollapsesQ ==
    IF symm = 6
    THEN loc.mqfn = 0
         \/ (loc.mqd = loc.mqqd /\ loc.mqe = loc.mqqe /\ loc.mqfn = loc.mqqfn)
    ELSE loc.mqfn = 0

\* the flipdel calls of the first collapse block
DelsP ==
    LET p == loc.p
        pp == pair6(loc.p)
    IN  IF symm = 6
        THEN <<(<<"del", p, loc.mpd>>), (<<"del", me(p), loc.mpen>>),
               (<<"del", mf(p), loc.mpf>>), (<<"del", pp, loc.mppd>>),
               (<<"del", me(pp), loc.mppen>>), (<<"del", mf(pp), loc.mppf>>)>>
        ELSE <<(<<"del", p, muls[p]>>), (<<"del", me(p), loc.mpen>>),
               (<<"del", mf(p), loc.mpf>>)>>

\* the writes of the first block without the explicit zeroing of the E-slots
ZerosPKeepsE ==
    LET p == loc.p
        pp == pair6(loc.p)
    IN  IF symm = 6
        THEN <<(<<p, 0>>), (<<mf(p), 0>>), (<<pp, 0>>), (<<mf(pp), 0>>)>>
        ELSE <<(<<p, 0>>), (<<mf(p), 0>>)>>

\* the writes to muls of the first collapse block
ZerosP ==
    LET p == loc.p
        pp == pair6(loc.p)
    IN  IF symm = 6
        THEN <<(<<p, 0>>), (<<mf(p), 0>>), (<<pp, 0>>), (<<mf(pp), 0>>)>>
             \o (IF loc.mpen # 0 THEN <<(<<me(p), 0>>), (<<me(pp), 0>>)>> ELSE <<>>)
        ELSE <<(<<p, 0>>), (<<mf(p), 0>>)>>

\* the flipdel calls of the second collapse block
DelsQ ==
    LET q == loc.q
        qq == pair6(loc.q)
    IN  IF symm = 6
        THEN <<(<<"del", q, loc.mqd>>), (<<"del", me(q), loc.mqe>>),
               (<<"del", mf(q), loc.mqfn>>), (<<"del", qq, loc.mqqd>>),
               (<<"del", me(qq), loc.mqqe>>), (<<"del", mf(qq), loc.mqqfn>>)>>
        ELSE <<(<<"del", q, muls[q]>>), (<<"del", me(q), loc.mqe>>),
               (<<"del", mf(q), loc.mqfn>>)>>

\* the writes to muls of the second collapse block
ZerosQ ==
    LET q == loc.q
        qq == pair6(loc.q)
    IN  IF symm = 6
        THEN <<(<<q, 0>>), (<<me(q), 0>>), (<<qq, 0>>), (<<me(qq), 0>>)>>
             \o (IF loc.mqfn # 0 THEN <<(<<mf(q), 0>>), (<<mf(qq), 0>>)>> ELSE <<>>)
        ELSE <<(<<q, 0>>), (<<me(q), 0>>)>>

\* the exit checks in the other order: achieved <= target before C empty
CollapseExitTargetFirst(M, ach, pb, nextpc) ==
    IF ach <= target
    THEN [pc |-> "done", rcode |-> rcode, plusby |-> pb]
    ELSE IF Len(M.twoplusl) = 0
    THEN [pc |-> "done", rcode |-> 0 - 1, plusby |-> pb]
    ELSE [pc |-> nextpc, rcode |-> rcode, plusby |-> IF Trigger(M) THEN flips ELSE pb]

\* exit checks that do not look at the target
CollapseExitNoTarget(M, ach, pb, nextpc) ==
    IF Len(M.twoplusl) = 0
    THEN [pc |-> "done", rcode |-> 0 - 1, plusby |-> pb]
    ELSE [pc |-> nextpc, rcode |-> rcode, plusby |-> IF Trigger(M) THEN flips ELSE pb]

\* exit checks without the trigger check
CollapseExitNoTrigger(M, ach, pb, nextpc) ==
    IF Len(M.twoplusl) = 0
    THEN [pc |-> "done", rcode |-> 0 - 1, plusby |-> pb]
    ELSE IF ach <= target
    THEN [pc |-> "done", rcode |-> rcode, plusby |-> pb]
    ELSE [pc |-> nextpc, rcode |-> rcode, plusby |-> pb]

\* the exit checks and the trigger check that end a collapse block:
\* the next pc, rcode and plusby, pb being the rescheduled plusby
CollapseExit(M, ach, pb, nextpc) ==
    IF Len(M.twoplusl) = 0
    THEN [pc |-> "done", rcode |-> 0 - 1, plusby |-> pb]
    ELSE IF ach <= target
    THEN [pc |-> "done", rcode |-> rcode, plusby |-> pb]
    ELSE [pc |-> nextpc, rcode |-> rcode, plusby |-> IF Trigger(M) THEN flips ELSE pb]

\* a collapse block that recomputes limit also when achieved ties minmuls
CollapseBlockLimitOnTie(dels, zeros, nextpc) ==
    LET M == ApplyOps(Map, dels, nomuls)
        mu == WriteAll(muls, zeros)
        ach == achieved - symm
        newmin == IF ach < minmuls THEN ach ELSE minmuls
        upd == ach <= minmuls /\ ach > target
        steps == limitsteps(termination, ach, target, symm)
    IN  IF M.ub
        THEN /\ pc' = "ub"
             /\ UNCHANGED <<mapvars, muls, best, achieved, minmuls, limit, plusby, rcode>>
        ELSE \/ /\ upd /\ steps = 0
                /\ pc' = "crashed"
                /\ UNCHANGED <<mapvars, muls, best, achieved, minmuls, limit,
                               plusby, rcode>>
             \/ \E rnd \in 0..MaxRand :
                  LET pb == plusschedule(ach, maxplus, flimit, plimit, flips, symm, rnd)
                      ex == CollapseExit(M, ach, pb, nextpc)
                  IN  /\ SetMap(M)
                      /\ muls' = mu
                      /\ achieved' = ach
                      /\ minmuls' = newmin
                      /\ limit' = IF ~upd THEN limit
                                  ELSE IF steps = 0 THEN flips
                                  ELSE updatelimit(limit, flips, termination, split,
                                                   ach, target, symm, flimit)
                      /\ best' = IF ach <= newmin THEN mu ELSE best
                      /\ plusby' = ex.plusby
                      /\ rcode' = ex.rcode
                      /\ pc' = ex.pc

\* a collapse block whose condition holds
CollapseBlock(dels, zeros, nextpc) ==
    LET M == ApplyOps(Map, dels, nomuls)
        mu == WriteAll(muls, zeros)
        ach == achieved - symm
        newmin == IF ach < minmuls THEN ach ELSE minmuls
        upd == ach < minmuls /\ ach > target
        steps == limitsteps(termination, ach, target, symm)
    IN  IF M.ub
        THEN /\ pc' = "ub"
             /\ UNCHANGED <<mapvars, muls, best, achieved, minmuls, limit, plusby, rcode>>
        ELSE \/ /\ upd /\ steps = 0
                /\ pc' = "crashed"
                /\ UNCHANGED <<mapvars, muls, best, achieved, minmuls, limit,
                               plusby, rcode>>
             \/ \E rnd \in 0..MaxRand :
                  LET pb == plusschedule(ach, maxplus, flimit, plimit, flips, symm, rnd)
                      ex == CollapseExit(M, ach, pb, nextpc)
                  IN  /\ SetMap(M)
                      /\ muls' = mu
                      /\ achieved' = ach
                      /\ minmuls' = newmin
                      /\ limit' = IF ~upd THEN limit
                                  ELSE IF steps = 0 THEN flips
                                  ELSE updatelimit(limit, flips, termination, split,
                                                   ach, target, symm, flimit)
                      /\ best' = IF ach <= newmin THEN mu ELSE best
                      /\ plusby' = ex.plusby
                      /\ rcode' = ex.rcode
                      /\ pc' = ex.pc

CollapseP ==
    /\ pc = "collapse_p"
    /\ IF CollapsesP
       THEN CollapseBlock(DelsP, ZerosP, "collapse_q")
       ELSE /\ pc' = "collapse_q"
            /\ UNCHANGED <<mapvars, muls, best, achieved, minmuls, limit, plusby, rcode>>
    /\ UNCHANGED <<inputs, recovery, flips, plus, loc, file>>

CollapseQ ==
    /\ pc = "collapse_q"
    /\ IF CollapsesQ
       THEN CollapseBlock(DelsQ, ZerosQ, "plus")
       ELSE /\ pc' = "plus"
            /\ UNCHANGED <<mapvars, muls, best, achieved, minmuls, limit, plusby, rcode>>
    /\ UNCHANGED <<inputs, recovery, flips, plus, loc, file>>

(***************************************************************************)
(* The plus move.                                                          *)
(***************************************************************************)
\* for (r = 0; r < nomuls; r++) if (muls[r] == 0) break;
FirstZero ==
    IF \E r \in DOMAIN muls : muls[r] = 0
    THEN CHOOSE r \in DOMAIN muls :
            muls[r] = 0 /\ \A j \in DOMAIN muls : j < r => muls[j] # 0
    ELSE nomuls

\* the new values of the nine (eighteen) slots for the candidate pair (p, q)
PlusLoad(p, q) ==
    LET pp == pair6(p)
        qq == pair6(q)
        six == symm = 6
    IN  [p |-> p, q |-> q,
         mpd |-> muls[p], mpe |-> muls[me(p)], mpf |-> muls[mf(p)],
         mqd |-> muls[q], mqe |-> muls[me(q)], mqf |-> muls[mf(q)],
         mpen |-> BitXor(muls[me(p)], muls[me(q)]),
         mqfn |-> BitXor(muls[mf(p)], muls[mf(q)]),
         mrdn |-> BitXor(muls[p], muls[q]),
         mppd |-> IF six THEN muls[pp] ELSE 0,
         mppe |-> IF six THEN muls[me(pp)] ELSE 0,
         mppf |-> IF six THEN muls[mf(pp)] ELSE 0,
         mqqd |-> IF six THEN muls[qq] ELSE 0,
         mqqe |-> IF six THEN muls[me(qq)] ELSE 0,
         mqqf |-> IF six THEN muls[mf(qq)] ELSE 0,
         mppen |-> IF six THEN BitXor(muls[me(pp)], muls[me(qq)]) ELSE 0,
         mqqfn |-> IF six THEN BitXor(muls[mf(pp)], muls[mf(qq)]) ELSE 0,
         mrrdn |-> IF six THEN BitXor(muls[pp], muls[qq]) ELSE 0]

\* the test "ok" of the candidate search
PlusOk(p, q) ==
    LET l == PlusLoad(p, q)
        exceed == 1 - maxsize
        psize == bitcount(l.mpd) * bitcount(l.mpen) * bitcount(l.mpf)
        qsize == bitcount(l.mpd) * bitcount(l.mqe) * bitcount(l.mqfn)
        rsize == bitcount(l.mrdn) * bitcount(l.mqe) * bitcount(l.mqf)
    IN  /\ maxsize > 0 => ~(psize > maxsize \/ qsize > maxsize \/ rsize > maxsize)
        /\ maxsize < 0 => (bitlimit(l.mpen, exceed) # 0 /\ bitlimit(l.mqfn, exceed) # 0
                           /\ bitlimit(l.mrdn, exceed) # 0)
        /\ ~(l.mpd = 0 \/ l.mqd = 0)
        /\ symm = 6 => ~(l.mppd = 0 \/ l.mqqd = 0)
        /\ ~(l.mpd = l.mqd \/ l.mpe = l.mqe \/ l.mpf = l.mqf)
        /\ symm = 6 => ~(l.mppd = l.mqqd \/ l.mppe = l.mqqe \/ l.mppf = l.mqqf)
        /\ permit(p, q, symm) # 0

PlusCandidates == {pq \in (DOMAIN muls) \X (DOMAIN muls) : PlusOk(pq[1], pq[2])}

\* the flipdel/flipadd calls of the plus move
PlusOps(l, r) ==
    LET p == l.p
        q == l.q
        pp == pair6(l.p)
        qq == pair6(l.q)
        rr == r + 3
        half == <<(<<"del", me(p), l.mpe>>), (<<"add", me(p), l.mpen>>),
                  (<<"del", q, l.mqd>>), (<<"add", q, l.mpd>>),
                  (<<"del", mf(q), l.mqf>>), (<<"add", mf(q), l.mqfn>>),
                  (<<"add", r, l.mrdn>>), (<<"add", me(r), l.mqe>>),
                  (<<"add", mf(r), l.mqf>>)>>
    IN  IF symm = 6
        THEN half \o
             <<(<<"del", me(pp), l.mppe>>), (<<"add", me(pp), l.mppen>>),
               (<<"del", qq, l.mqqd>>), (<<"add", qq, l.mppd>>),
               (<<"del", mf(qq), l.mqqf>>), (<<"add", mf(qq), l.mqqfn>>),
               (<<"add", rr, l.mrrdn>>), (<<"add", me(rr), l.mqqe>>),
               (<<"add", mf(rr), l.mqqf>>)>>
        ELSE half

\* a plus move that leaves the first slot of q's triple as it was
PlusWritesKeepsQ(l, r) ==
    LET p == l.p
        q == l.q
        pp == pair6(l.p)
        qq == pair6(l.q)
        rr == r + 3
        half == <<(<<p, l.mpd>>), (<<me(p), l.mpen>>), (<<mf(p), l.mpf>>),
                  (<<q, l.mqd>>), (<<me(q), l.mqe>>), (<<mf(q), l.mqfn>>),
                  (<<r, l.mrdn>>), (<<me(r), l.mqe>>), (<<mf(r), l.mqf>>)>>
    IN  IF symm = 6
        THEN half \o
             <<(<<pp, l.mppd>>), (<<me(pp), l.mppen>>), (<<mf(pp), l.mppf>>),
               (<<qq, l.mqqd>>), (<<me(qq), l.mqqe>>), (<<mf(qq), l.mqqfn>>),
               (<<rr, l.mrrdn>>), (<<me(rr), l.mqqe>>), (<<mf(rr), l.mqqf>>)>>
        ELSE half

\* the writes to muls of the plus move
PlusWrites(l, r) ==
    LET p == l.p
        q == l.q
        pp == pair6(l.p)
        qq == pair6(l.q)
        rr == r + 3
        half == <<(<<p, l.mpd>>), (<<me(p), l.mpen>>), (<<mf(p), l.mpf>>),
                  (<<q, l.mpd>>), (<<me(q), l.mqe>>), (<<mf(q), l.mqfn>>),
                  (<<r, l.mrdn>>), (<<me(r), l.mqe>>), (<<mf(r), l.mqf>>)>>
    IN  IF symm = 6
        THEN half \o
             <<(<<pp, l.mppd>>), (<<me(pp), l.mppen>>), (<<mf(pp), l.mppf>>),
               (<<qq, l.mppd>>), (<<me(qq), l.mqqe>>), (<<mf(qq), l.mqqfn>>),
               (<<rr, l.mrrdn>>), (<<me(rr), l.mqqe>>), (<<mf(rr), l.mqqf>>)>>
        ELSE half

\* flips < plusby: no plus move in this iteration
PlusSkip ==
    /\ pc = "plus"
    /\ flips < plusby
    /\ pc' = "tick"
    /\ UNCHANGED <<inputs, recovery, mapvars, muls, best, flips, plus, achieved, minmuls,
                   limit, plusby, rcode, loc, file>>

\* a snapshot that saves the best scheme instead of the current one
SnapshotWritesBest ==
    /\ pc = "plus"
    /\ flips >= plusby
    /\ flips >= recovery
    /\ recovery' = vlong(recovery + RecoveryStep)
    /\ file' = [kind |-> "recovery", rcode |-> 2, flips |-> flips, plimit |-> plimit,
                achieved |-> achieved, minmuls |-> minmuls, plus |-> plus,
                vals |-> best]
    /\ pc' = "plus_go"
    /\ UNCHANGED <<inputs, mapvars, muls, best, flips, plus, achieved, minmuls,
                   limit, plusby, rcode, loc>>

\* flips >= plusby and flips >= recovery (lines 683-692, 1065-1074): the file is
\* rewritten with rcode 2 and the current muls before the plus move starts
Snapshot ==
    /\ pc = "plus"
    /\ flips >= plusby
    /\ flips >= recovery
    /\ recovery' = vlong(recovery + RecoveryStep)
    /\ file' = [kind |-> "recovery", rcode |-> 2, flips |-> flips, plimit |-> plimit,
                achieved |-> achieved, minmuls |-> minmuls, plus |-> plus,
                vals |-> muls]
    /\ pc' = "plus_go"
    /\ UNCHANGED <<inputs, mapvars, muls, best, flips, plus, achieved, minmuls,
                   limit, plusby, rcode, loc>>

\* the plus move starts: flips >= plusby, and the snapshot is written or not due
PlusReady ==
    \/ pc = "plus" /\ flips >= plusby /\ flips < recovery
    \/ pc = "plus_go"

\* flips >= plusby: the candidate search returns a pair, the rewrite, the reschedule
PlusMove ==
    /\ PlusReady
    /\ \E pq \in PlusCandidates :
          LET r == FirstZero
              l == PlusLoad(pq[1], pq[2])
              inrange == IF symm = 6 THEN r + 5 < nomuls ELSE r < nomuls
              M == IF inrange THEN ApplyOps(Map, PlusOps(l, r), nomuls) ELSE Broken(Map)
          IN  IF M.ub
              THEN /\ pc' = "ub"
                   /\ UNCHANGED <<mapvars, muls, plus, achieved, plusby>>
              ELSE /\ pc' = "tick"
                   /\ SetMap(M)
                   /\ muls' = WriteAll(muls, PlusWrites(l, r))
                   /\ plus' = vlong(plus + symm)
                   /\ achieved' = achieved + symm
                   /\ \E rnd \in 0..MaxRand :
                         plusby' = plusschedule(achieved + symm, maxplus, flimit,
                                                plimit, flips, symm, rnd)
    /\ UNCHANGED <<inputs, recovery, best, flips, minmuls, limit, rcode, loc, file>>

\* flips >= plusby and no pair passes the test: the while (true) loop never ends
PlusHang ==
    /\ PlusReady
    /\ PlusCandidates = {}
    /\ pc' = "hung"
    /\ UNCHANGED <<inputs, recovery, mapvars, muls, best, flips, plus, achieved, minmuls,
                   limit, plusby, rcode, loc, file>>

(***************************************************************************)
(* The budget tick and the final output.                                   *)
(***************************************************************************)
\* a budget tick that leaves the loop without setting rcode
BudgetTickKeepsRcode ==
    /\ pc = "tick"
    /\ pc' = IF flips >= limit THEN "done" ELSE "flip"
    /\ rcode' = rcode
    /\ loc' = NoLoc
    /\ UNCHANGED <<inputs, recovery, mapvars, muls, best, flips, plus, achieved, minmuls,
                   limit, plusby, file>>

\* a budget tick that reports rcode 1 only when flips exceeds flimit
BudgetTickStrict ==
    /\ pc = "tick"
    /\ IF flips >= limit
       THEN /\ rcode' = IF flips > flimit THEN 1 ELSE 2
            /\ pc' = "done"
       ELSE /\ rcode' = rcode
            /\ pc' = "flip"
    /\ loc' = NoLoc
    /\ UNCHANGED <<inputs, recovery, mapvars, muls, best, flips, plus, achieved, minmuls,
                   limit, plusby, file>>

BudgetTick ==
    /\ pc = "tick"
    /\ IF flips >= limit
       THEN /\ rcode' = IF flips >= flimit THEN 1 ELSE 2
            /\ pc' = "done"
       ELSE /\ rcode' = rcode
            /\ pc' = "flip"
    /\ loc' = NoLoc
    /\ UNCHANGED <<inputs, recovery, mapvars, muls, best, flips, plus, achieved, minmuls,
                   limit, plusby, file>>

\* an output that prefers best also when the run ends at its minimum
OutputValsAtMinimum == IF minmuls <= achieved THEN best ELSE muls

\* the values written after the header
OutputVals == IF minmuls < achieved THEN best ELSE muls

WriteOutput ==
    /\ pc = "done"
    /\ file' = [kind |-> "final", rcode |-> rcode, flips |-> flips, plimit |-> plimit,
                achieved |-> achieved, minmuls |-> minmuls, plus |-> plus,
                vals |-> OutputVals]
    /\ pc' = "exit"
    /\ loc' = NoLoc
    /\ UNCHANGED <<inputs, recovery, mapvars, muls, best, flips, plus, achieved, minmuls,
                   limit, plusby, rcode>>

Next ==
    \/ Start
    \/ Flip
    \/ SampleFail
    \/ SamplerHang
    \/ SampleDivZero
    \/ CollapseP
    \/ CollapseQ
    \/ PlusSkip
    \/ Snapshot
    \/ PlusMove
    \/ PlusHang
    \/ BudgetTick
    \/ WriteOutput

Spec == Init /\ [][Next]_vars

(***************************************************************************)
(* Vocabulary of the properties.                                           *)
(***************************************************************************)
\* a main-loop iteration has completed, or the loop has been left
StepDone == pc \in {"flip", "done", "exit"}
Finished == pc \in {"done", "exit"}
\* the slot list the multimap stores for v (empty when v is no key)
MapSlots(v) == IF v \in DOMAIN uniques THEN unarray[uniques[v]] ELSE <<>>
NoDup(s) == \A i, j \in 1..Len(s) : i # j => s[i] # s[j]
Values == {muls[s] : s \in DOMAIN muls}
LiveCount == Cardinality({s \in DOMAIN muls : muls[s] # 0})

\* C1: for symm = 3, after every completed iteration (the terminating one
\* included) the slot list of each value v is exactly {s : muls[s] = v, v # 0},
\* and 0 is no key of the multimap.
C1_MapMatchesMuls ==
    (symm = 3 /\ StepDone) =>
        /\ 0 \notin DOMAIN uniques
        /\ \A v \in DOMAIN uniques \cup Values :
              /\ NoDup(MapSlots(v))
              /\ SeqRange(MapSlots(v)) = {s \in DOMAIN muls : muls[s] = v /\ v # 0}

\* C2: twoplusl holds exactly the values whose slot list has length >= 2, each
\* once, and twoplusd maps each of them to its index in twoplusl.
C2_TwoplusConsistent ==
    /\ NoDup(twoplusl)
    /\ SeqRange(twoplusl) = {v \in DOMAIN uniques : Len(unarray[uniques[v]]) >= 2}
    /\ DOMAIN twoplusd = SeqRange(twoplusl)
    /\ \A v \in DOMAIN twoplusd :
          twoplusd[v] < Len(twoplusl) /\ twoplusl[twoplusd[v] + 1] = v

\* C2 witness: the commit took the old value of me[p] out of twoplusl (its list
\* went from two slots to one) while other colliding values remain.
C2_Witness ==
    /\ pc = "collapse_p"
    /\ loc.mpe # loc.mpen
    /\ loc.mpe # loc.mqfn
    /\ Len(MapSlots(loc.mpe)) = 1
    /\ loc.mpe \notin SeqRange(twoplusl)
    /\ Len(twoplusl) >= 2

\* C3: for symm = 3, after every completed step (the terminating one included)
\* every triple of muls is all zero or all nonzero.
C3_TriplesConsistent ==
    (symm = 3 /\ StepDone) =>
        \A s \in DOMAIN muls : (muls[s] = 0) = (muls[3 * (s \div 3)] = 0)

\* C4: after initialisation and after every completed step (the terminating
\* one included) achieved is the number of nonzero slots of muls.
C4_AchievedIsLiveCount ==
    (pc = "start" \/ StepDone) => achieved = LiveCount

\* C5: no run stays in the main loop for ever: neither the flip sampler nor
\* the plus candidate search loops without end, and the loop is left by the
\* budget (rcode 1 or 2), by achieved <= target, by C empty (rcode -1) or by
\* 1000 failed samples (rcode 6).
C5_LeavesLoop ==
    /\ pc # "hung"
    /\ Finished => (rcode \in {1, 2, 0 - 1, 6} \/ achieved <= target)

\* C6 as claimed: the values written at termination are best if achieved fell
\* below its initial value during the run, and the current muls otherwise.
C6_BestIffNewMinimum ==
    [][(pc = "done" /\ pc' = "exit") =>
         file'.vals = (IF minmuls < InitAchieved(file.vals) THEN best ELSE muls)]_vars

\* C6 as amended: the values written at termination are best if minmuls <
\* achieved at termination, and the current muls if minmuls = achieved (also
\* when a new minimum was reached and muls has moved on from best since).
C6_BestIffAboveMinimum ==
    pc = "exit" =>
        /\ file.kind = "final"
        /\ \/ minmuls < achieved /\ file.vals = best
           \/ minmuls = achieved /\ file.vals = muls

\* C6 witness: the run ends at its minimum with muls different from best.
C6_Witness ==
    /\ pc = "exit"
    /\ minmuls = achieved
    /\ muls # best
    /\ file.vals = muls

\* C7 as claimed: a finished run never has rcode = 0.
C7_RcodeNeverZero == Finished => rcode \in {0 - 1, 1, 2, 6}

\* C7 as amended: a finished run has rcode -1, 1, 2 or 6, or it left the loop
\* through the achieved <= target branch with rcode still 0.
C7_RcodeZeroOnlyAtTarget ==
    Finished => (rcode \in {0 - 1, 1, 2, 6} \/ (rcode = 0 /\ achieved <= target))

\* C7 witness: the loop was left through the achieved <= target branch.
C7_Witness == pc = "done" /\ rcode = 0 /\ achieved <= target /\ Len(twoplusl) > 0

\* C8: a collapse block that leaves C empty ends the run in that step with
\* rcode = -1, also when achieved <= target holds at the same time.
C8_EmptyBeforeTarget ==
    [][(pc \in {"collapse_p", "collapse_q"} /\ twoplusl' = <<>>) =>
         (pc' = "done" /\ rcode' = 0 - 1)]_vars

\* C8 witness: C empty and achieved <= target after a collapse, rcode -1.
C8_Witness ==
    pc = "done" /\ rcode = 0 - 1 /\ achieved <= target /\ Len(twoplusl) = 0

\* C9: with C empty at the top of the loop, the flip attempt ends the run with
\* rcode = -1 and muls unchanged.
C9_EmptyEndsRun ==
    [][(pc = "flip" /\ twoplusl = <<>>) =>
         (pc' = "done" /\ rcode' = 0 - 1 /\ muls' = muls)]_vars

\* C10: at the budget tick, flips >= limit ends the run with rcode 1 when
\* flips >= flimit and rcode 2 otherwise; flips < limit continues the loop.
C10_BudgetTick ==
    [][pc = "tick" =>
         IF flips >= limit
         THEN pc' = "done" /\ rcode' = (IF flips >= flimit THEN 1 ELSE 2)
         ELSE pc' = "flip" /\ rcode' = rcode]_vars

\* C10 witness: the per-minimum budget ended the run below flimit.
C10_Witness == pc = "done" /\ rcode = 2 /\ flips >= limit /\ flips < flimit

\* C11: when maxsize > 0 and 1000 samples in a row fail the size test, the run
\* ends with rcode = 6 and the failed iteration leaves muls, M, C, achieved,
\* minmuls, best, plus, limit, plusby and flips as they were before it began.
C11_FailedSampleKeepsState ==
    [][(pc = "flip" /\ maxsize > 0 /\ pc' = "done") =>
         /\ rcode' = 6
         /\ UNCHANGED <<muls, mapvars, achieved, minmuls, best, plus, limit,
                        plusby, flips>>]_vars

\* C12: a collapse block that leaves achieved <= target with C non-empty ends
\* the run in that step (no second collapse block, no plus move, no further
\* flip) and rcode keeps its initial value 0.
C12_TargetEndsRun ==
    [][(/\ pc \in {"collapse_p", "collapse_q"}
        /\ achieved' < achieved
        /\ achieved' <= target
        /\ twoplusl' # <<>>) =>
         (pc' = "done" /\ rcode' = 0)]_vars

\* C12 witness: the p-collapse reached the target with C non-empty while the
\* q-collapse of the same step was still pending.
C12_Witness ==
    /\ pc = "done"
    /\ rcode = 0
    /\ achieved <= target
    /\ twoplusl # <<>>
    /\ loc # NoLoc
    /\ loc.mpen = 0
    /\ loc.mqfn = 0

\* the triple of slot s is retired in muls and in the multimap
TripleGone(mu, un, s) ==
    /\ mu[s] = 0 /\ mu[me(s)] = 0 /\ mu[mf(s)] = 0
    /\ \A b \in DOMAIN un : {s, me(s), mf(s)} \cap SeqRange(un[b]) = {}

\* C13: in every symm = 3 flip step whose new value at mf[q] is zero, the
\* collapse blocks leave the whole triple of q zero in muls and absent from M
\* and take 3 off achieved for it, also when p's triple collapsed first.
C13_QTripleCollapses ==
    [][(/\ symm = 3
        /\ loc # NoLoc
        /\ loc.mqfn = 0
        /\ pc \in {"collapse_p", "collapse_q"}
        /\ pc' \in {"plus", "done"}) =>
         /\ TripleGone(muls', unarray', loc.q)
         /\ achieved' = achieved - (IF pc = "collapse_p" THEN 6 ELSE 3)]_vars

\* a decomposition given as the list of its slots 0, 1, ...
Slots(seq) == [i \in 0..(Len(seq) - 1) |-> seq[i + 1]]

\* C14: scenario S2.  With symm = 3, nomuls = 6 and muls = 1 2 3 1 2 3 the flip
\* on (p, q) = (0, 3) collapses triple 0 only and leaves achieved = 3,
\* minmuls = 3 and best = 0 0 0 1 2 3; with target = 3 the run has then left
\* the loop through the achieved <= target branch with rcode = 0.
C14_ScenarioS2 ==
    (/\ symm = 3
     /\ file.kind = "input"
     /\ file.vals = Slots(<<1, 2, 3, 1, 2, 3>>)
     /\ flips = 3
     /\ loc # NoLoc
     /\ loc.p = 0
     /\ loc.q = 3
     /\ pc \in {"collapse_q", "plus", "tick", "done"}) =>
        /\ achieved = 3
        /\ minmuls = 3
        /\ best = Slots(<<0, 0, 0, 1, 2, 3>>)
        /\ target = 3 => (pc = "done" /\ rcode = 0)

\* the trigger condition on the current multimap
TriggerNow == Trigger(Map)

Rescheduled ==
    \/ pc = "start" /\ pc' = "flip"
    \/ /\ pc \in {"collapse_p", "collapse_q"}
       /\ achieved' < achieved
       /\ ~(pc' \in {"collapse_q", "plus"} /\ TriggerNow')
    \/ pc \in {"plus", "plus_go"} /\ pc' = "tick" /\ plus' # plus

\* C16: whenever plusby is rescheduled with an input plimit < 0 and
\* achieved < maxplus, symm <= plusby - flips <= symm + 2*|plimit| - 1.
C16_RandomPlusDelay ==
    [][(/\ file.kind = "input"
        /\ file.plimit < 0
        /\ Rescheduled
        /\ achieved' < maxplus) =>
         /\ symm <= plusby' - flips'
         /\ plusby' - flips' <= symm + 2 * (0 - file.plimit) - 1]_vars

(***************************************************************************)
(* updatelimit on its own: the arguments are drawn from small sets, one    *)
(* call is made and its return value is kept in limit.  The variables the  *)
(* function does not read are held at empty values.                        *)
(***************************************************************************)
LimitFlimits == {10, 12}
LimitFlips == {0, 3, 6, 9, 12, 15}
LimitRanks == {3, 6, 9, 12, 15}
LimitTargets == {0, 3, 4}
LimitTerminations == {0, 1, 2, 3, 9}

LimitInit ==
    /\ symm \in {3, 6}
    /\ termination \in LimitTerminations
    /\ flimit \in LimitFlimits
    /\ flips \in LimitFlips
    /\ achieved \in LimitRanks
    /\ target \in LimitTargets
    /\ split = 50
    /\ limit = 0
    /\ pc = "limit_call"
    /\ nomuls = 0
    /\ muls = <<>>
    /\ best = <<>>
    /\ SetMapInit(EmptyMap(0))
    /\ plimit = 0
    /\ maxplus = 0
    /\ maxsize = 0
    /\ plus = 0
    /\ minmuls = 0
    /\ plusby = 0
    /\ rcode = 0
    /\ loc = NoLoc
    /\ file = [kind |-> "none"]
    /\ recovery = 0

\* one call of updatelimit; a zero divisor is the undefined division
LimitCall ==
    /\ pc = "limit_call"
    /\ IF limitsteps(termination, achieved, target, symm) = 0
       THEN \/ pc' = "crashed" /\ limit' = limit
            \/ pc' = "limit_ret" /\ limit' = flips
       ELSE /\ pc' = "limit_ret"
            /\ limit' = updatelimit(limit, flips, termination, split, achieved,
                                    target, symm, flimit)
    /\ UNCHANGED <<inputs, recovery, mapvars, muls, best, flips, plus, achieved, minmuls,
                   plusby, rcode, loc, file>>

LimitNext == LimitCall

LimitSpec == LimitInit /\ [][LimitNext]_vars

\* C17: for all arguments whose divisor is positive updatelimit returns the
\* value of the table: flimit for termination 0; flips + (flimit - flips) div
\* ((achieved - target) div symm) for termination 1; flips + flimit for
\* termination 2; for t >= 3, flips + (split*flimit div 100 - flips) div
\* ((achieved - t) div symm) when achieved > t, else the termination-1 value.
C17_LimitTable ==
    LET d1 == CDiv(achieved - target, symm)
        dt == CDiv(achieved - termination, symm)
        slimit == CDiv(split * flimit, 100)
        divisor == IF termination \in {0, 2} THEN 1
                   ELSE IF termination >= 3 /\ achieved > termination THEN dt
                   ELSE d1
        table == IF termination = 0 THEN flimit
                 ELSE IF termination = 2 THEN flips + flimit
                 ELSE IF termination >= 3 /\ achieved > termination
                 THEN flips + CDiv(slimit - flips, dt)
                 ELSE flips + CDiv(flimit - flips, d1)
    IN  (pc = "limit_ret" /\ divisor > 0) => limit = table

\* C18: at every call of updatelimit the program makes (the unconditional one
\* before the main loop, and the one in a collapse block that reaches a new
\* minimum above the target) the divisor used is at least 1.
C18_DivisorPositive ==
    /\ pc = "start" => limitsteps(termination, achieved, target, symm) >= 1
    /\ (/\ \/ pc = "collapse_p" /\ CollapsesP
           \/ pc = "collapse_q" /\ CollapsesQ
        /\ achieved - symm < minmuls
        /\ achieved - symm > target) =>
          limitsteps(termination, achieved - symm, target, symm) >= 1

\* after the commit the p-triple and the pp-triple agree in all three
\* positions although the new E-value is not zero
Coincide ==
    /\ symm = 6
    /\ loc # NoLoc
    /\ loc.mpen # 0
    /\ loc.mpd = loc.mppd
    /\ loc.mpen = loc.mppen
    /\ loc.mpf = loc.mppf

\* C19: in a symm = 6 flip step in which the p-triple and the pp-triple
\* coincide with a nonzero new E-value, the first collapse block sets all six
\* slots of both halves to 0, removes all six from M and takes exactly 6 off
\* achieved.
C19_CoincidenceCollapses ==
    [][(pc = "collapse_p" /\ Coincide) =>
         /\ TripleGone(muls', unarray', loc.p)
         /\ TripleGone(muls', unarray', pair6(loc.p))
         /\ achieved' = achieved - 6]_vars

\* C19 witness: the first block has run on a coincidence
C19_Witness ==
    /\ pc \in {"collapse_q", "done"}
    /\ Coincide
    /\ muls[loc.p] = 0
    /\ muls[me(loc.p)] = 0

\* C20: for symm = 6 and an input whose sub-triples are each all zero or all
\* nonzero, after every completed step every sub-triple of every sextuple is
\* all zero or all nonzero, whatever the component values of the two halves.
C20_SubTriplesConsistent ==
    (symm = 6 /\ StepDone) =>
        \A s \in DOMAIN muls : (muls[s] = 0) = (muls[3 * (s \div 3)] = 0)

(***************************************************************************)
(* The multimap on its own: a multimap built by the initialisation loop    *)
(* and thinned by flipdel calls, then one flipadd(v, s) followed by        *)
(* flipdel(v, s).  muls holds the value each slot is listed under (0:      *)
(* none), loc.p and loc.mpd the slot and value of the pair of calls, file  *)
(* the multimap before them.                                               *)
(***************************************************************************)
MapSlotCount == 3
MapValues == {1, 2, 3}

MapInit ==
    /\ nomuls = MapSlotCount
    /\ muls \in [0..(MapSlotCount - 1) -> {0} \cup MapValues]
    /\ SetMapInit(InitMap(EmptyMap(nomuls), 0, muls, nomuls))
    /\ pc = "map_idle"
    /\ loc = NoLoc
    /\ file = [kind |-> "none"]
    /\ recovery = 0
    /\ best = muls
    /\ symm = 3
    /\ target = 0
    /\ flimit = 0
    /\ plimit = 0
    /\ termination = 0
    /\ maxplus = 0
    /\ split = 0
    /\ maxsize = 0
    /\ flips = 0
    /\ plus = 0
    /\ achieved = 0
    /\ minmuls = 0
    /\ limit = 0
    /\ plusby = 0
    /\ rcode = 0

\* flipdel of a listed slot
MapRemove ==
    /\ pc = "map_idle"
    /\ \E s \in DOMAIN muls :
          /\ muls[s] # 0
          /\ LET M == flipdel(Map, s, muls[s], nomuls)
             IN  /\ SetMap(M)
                 /\ pc' = IF M.ub THEN "ub" ELSE pc
          /\ muls' = [muls EXCEPT ![s] = 0]
    /\ UNCHANGED <<inputs, recovery, best, flips, plus, achieved, minmuls, limit, plusby,
                   rcode, loc, file>>

\* flipadd(v, s) for a slot s not listed under v
MapAdd ==
    /\ pc = "map_idle"
    /\ \E s \in DOMAIN muls, v \in MapValues :
          /\ muls[s] # v
          /\ LET M == flipadd(Map, s, v, nomuls)
             IN  /\ SetMap(M)
                 /\ pc' = IF M.ub THEN "ub" ELSE "map_added"
          /\ loc' = [NoLoc EXCEPT !.p = s, !.mpd = v]
    /\ file' = [kind |-> "map", before |-> Map]
    /\ UNCHANGED <<inputs, recovery, muls, best, flips, plus, achieved, minmuls, limit,
                   plusby, rcode>>

\* flipdel(v, s) for the pair just added
MapDelete ==
    /\ pc = "map_added"
    /\ LET M == flipdel(Map, loc.p, loc.mpd, nomuls)
       IN  /\ SetMap(M)
           /\ pc' = IF M.ub THEN "ub" ELSE "map_restored"
    /\ UNCHANGED <<inputs, recovery, muls, best, flips, plus, achieved, minmuls, limit,
                   plusby, rcode, loc, file>>

MapNext == MapRemove \/ MapAdd \/ MapDelete

MapSpec == MapInit /\ [][MapNext]_vars

\* C21: flipadd(v, s) followed by flipdel(v, s), s not listed under v before,
\* restores the multimap: the same keys, the same slot list in the same order
\* for every key, the same twoplusl and twoplusd, the same avail stack.
C21_AddThenRemoveRestores ==
    /\ pc # "ub"
    /\ pc = "map_restored" =>
        /\ uniques = file.before.uniques
        /\ unarray = file.before.unarray
        /\ twoplusl = file.before.twoplusl
        /\ twoplusd = file.before.twoplusd
        /\ avail = file.before.avail

\* C21 witness: the pair of calls took v into twoplusl and out again while
\* another value stayed there, and a block was free
C21_Witness ==
    /\ pc = "map_restored"
    /\ loc.mpd \in DOMAIN uniques
    /\ Len(unarray[uniques[loc.mpd]]) = 1
    /\ Len(twoplusl) >= 1
    /\ Len(avail) >= 1

(***************************************************************************)
(* The flip update on its own, applied twice to the same pair: the loads   *)
(* and the commit of lines 559-576 without the rest of the iteration.      *)
(* file keeps muls and the multimap as they were before the first update.  *)
(***************************************************************************)
TwiceInit ==
    /\ symm = 3
    /\ nomuls \in SlotCounts(3)
    /\ \E trs \in [0..((nomuls \div 3) - 1) -> Terms3] :
          muls = [i \in 0..(nomuls - 1) |-> trs[i \div 3][(i % 3) + 1]]
    /\ SetMapInit(InitMap(EmptyMap(nomuls), 0, muls, nomuls))
    /\ pc = "twice_0"
    /\ loc = NoLoc
    /\ file = [kind |-> "before", vals |-> muls, map |-> Map]
    /\ recovery = 0
    /\ best = muls
    /\ achieved = InitAchieved(muls)
    /\ maxsize = 0
    /\ target = 0
    /\ flimit = 0
    /\ plimit = 0
    /\ termination = 0
    /\ maxplus = 0
    /\ split = 0
    /\ flips = 0
    /\ plus = 0
    /\ minmuls = 0
    /\ limit = 0
    /\ plusby = 0
    /\ rcode = 0

\* the flip update on the pair l.p, l.q with the loaded values l
TwiceCommit(l, nextpc) ==
    LET M == CommitMap(l)
    IN  IF M.ub
        THEN pc' = "ub" /\ UNCHANGED <<mapvars, muls>>
        ELSE pc' = nextpc /\ SetMap(M) /\ muls' = CommitMuls(l)

\* the first update, on a sampled pair whose two new values are not zero
TwiceFirst ==
    /\ pc = "twice_0"
    /\ \E pq \in SamplePairs :
          /\ Accept(pq[1], pq[2])
          /\ LET l == Load(pq[1], pq[2])
             IN  /\ l.mpen # 0
                 /\ l.mqfn # 0
                 /\ TwiceCommit(l, "twice_1")
                 /\ loc' = l
    /\ UNCHANGED <<inputs, recovery, best, flips, plus, achieved, minmuls, limit, plusby,
                   rcode, file>>

\* the second update, on the same pair
TwiceSecond ==
    /\ pc = "twice_1"
    /\ TwiceCommit(Load(loc.p, loc.q), "twice_2")
    /\ UNCHANGED <<inputs, recovery, best, flips, plus, achieved, minmuls, limit, plusby,
                   rcode, loc, file>>

TwiceNext == TwiceFirst \/ TwiceSecond

TwiceSpec == TwiceInit /\ [][TwiceNext]_vars

\* C22: for symm = 3 and a permitted pair whose flip produces no zero value,
\* the flip update applied twice to the pair returns muls and the slots
\* listed under every value to what they were before the first update.
C22_FlipTwiceRestores ==
    /\ pc # "ub"
    /\ pc = "twice_2" =>
        /\ muls = file.vals
        /\ DOMAIN uniques = DOMAIN file.map.uniques
        /\ \A v \in DOMAIN uniques :
              SeqRange(MapSlots(v)) = SeqRange(file.map.unarray[file.map.uniques[v]])

\* C22 witness: two updates were made and the first one changed both slots
C22_Witness ==
    /\ pc = "twice_2"
    /\ loc.mpen # 0 /\ loc.mqfn # 0
    /\ loc.mpen # loc.mpe /\ loc.mqfn # loc.mqf
    /\ muls[me(loc.p)] = loc.mpe

\* C23: in maxsize = 0 mode, when C holds exactly one value and that value has
\* exactly two slots, the sampler returns after a single draw: each pair one
\* random word can select passes the test that ends the retry loop.
C23_SingleDraw ==
    (/\ pc = "flip"
     /\ maxsize = 0
     /\ Len(twoplusl) = 1
     /\ Len(slots(twoplusl[1])) = 2) =>
        \A pq \in SamplePairs : Accept(pq[1], pq[2])

\* C24: a recovery snapshot is written exactly when a plus move is about to run
\* (flips >= plusby) and flips >= recovery; it writes rcode 2 and the current
\* muls, advances recovery by one recovery distance and changes nothing else of
\* the search state; no other step writes a snapshot or moves recovery.
C24_RecoverySnapshot ==
    [][/\ (pc = "plus" /\ flips >= plusby /\ flips >= recovery) =>
            /\ file'.kind = "recovery"
            /\ file'.rcode = 2
            /\ file'.vals = muls
            /\ file'.flips = flips
            /\ recovery' = recovery + RecoveryStep
            /\ UNCHANGED <<rcode, muls, mapvars, flips, achieved, minmuls, best,
                           plus, limit, plusby>>
       /\ ((file' # file /\ file'.kind = "recovery") \/
             (recovery' # recovery /\ pc # "start")) =>
            (pc = "plus" /\ flips >= plusby /\ flips >= recovery)
      ]_vars

\* C24 witness: a snapshot just written whose scheme is not the best one
C24_Witness ==
    /\ pc = "plus_go"
    /\ file.kind = "recovery"
    /\ file.rcode = 2
    /\ rcode = 0
    /\ file.vals = muls
    /\ muls # best
    /\ recovery = 2 * RecoveryStep

\* C25: a symm = 3 flip on (p, q) in which neither new value is zero changes
\* exactly two slots, muls[me[p]] to muls[me[p]] XOR muls[me[q]] and muls[mf[q]]
\* to muls[mf[q]] XOR muls[mf[p]], both from the pre-flip values; every other
\* slot, achieved, minmuls, best and limit are left as they were.
C25_FlipWritesTwoSlots ==
    [][(/\ symm = 3
        /\ pc = "flip"
        /\ pc' = "collapse_p"
        /\ loc'.mpen # 0
        /\ loc'.mqfn # 0) =>
         LET p == loc'.p
             q == loc'.q
         IN  /\ me(p) # mf(q)
             /\ muls'[me(p)] = BitXor(muls[me(p)], muls[me(q)])
             /\ muls'[mf(q)] = BitXor(muls[mf(q)], muls[mf(p)])
             /\ muls'[me(p)] # muls[me(p)]
             /\ muls'[mf(q)] # muls[mf(q)]
             /\ \A i \in (0..(nomuls - 1)) \ {me(p), mf(q)} : muls'[i] = muls[i]
             /\ UNCHANGED <<achieved, minmuls, best, limit>>
      ]_vars

\* C25 witness: after such a flip both collapse blocks have nothing to do
C25_Witness ==
    /\ symm = 3
    /\ pc = "plus"
    /\ loc # NoLoc
    /\ loc.mpen # 0
    /\ loc.mqfn # 0
    /\ muls[me(loc.p)] = loc.mpen
    /\ muls[mf(loc.q)] = loc.mqfn
    /\ muls # best

\* a step that carries out a plus move
PlusStep ==
    /\ pc \in {"plus", "plus_go"}
    /\ pc' = "tick"
    /\ plus' # plus

\* slot r starts a triple whose three slots are zero
FreeTriple(r) ==
    /\ r < nomuls
    /\ r % 3 = 0
    /\ muls[r] = 0 /\ muls[me(r)] = 0 /\ muls[mf(r)] = 0

\* C26: an accepted symm = 3 plus move on (p, q) with free triple r sets, from the
\* pre-move values, muls[me[p]] = me[p] XOR me[q], muls[q] = muls[p],
\* muls[mf[q]] = mf[p] XOR mf[q], muls[r] = muls[p] XOR muls[q],
\* muls[me[r]] = muls[me[q]], muls[mf[r]] = muls[mf[q]]; it leaves muls[p],
\* muls[mf[p]], muls[me[q]] and the slots of other triples unchanged, produces
\* no zero value, and increases plus and achieved by exactly 3.
C26_PlusMoveWrites ==
    [][(symm = 3 /\ PlusStep /\ FreeTriple(FirstZero)) =>
         LET r == FirstZero
             touched(p, q) == {p, me(p), mf(p), q, me(q), mf(q), r, me(r), mf(r)}
         IN  /\ \E pq \in PlusCandidates :
                  LET p == pq[1]
                      q == pq[2]
                  IN  /\ Cardinality(touched(p, q)) = 9
                      /\ muls'[me(p)] = BitXor(muls[me(p)], muls[me(q)])
                      /\ muls'[q] = muls[p]
                      /\ muls'[mf(q)] = BitXor(muls[mf(p)], muls[mf(q)])
                      /\ muls'[r] = BitXor(muls[p], muls[q])
                      /\ muls'[me(r)] = muls[me(q)]
                      /\ muls'[mf(r)] = muls[mf(q)]
                      /\ \A i \in (DOMAIN muls) \ {me(p), q, mf(q), r, me(r), mf(r)} :
                            muls'[i] = muls[i]
                      /\ \A i \in touched(p, q) : muls'[i] # 0
             /\ plus' = plus + 3
             /\ achieved' = achieved + 3
      ]_vars

\* C26 witness: the state after a symm = 3 plus move that filled the last free triple
C26_Witness ==
    /\ symm = 3
    /\ pc = "tick"
    /\ plus = 3
    /\ achieved = nomuls
    /\ minmuls = nomuls - 3
    /\ \A i \in DOMAIN muls : muls[i] # 0

\* C27: in each maxsize mode every pair (p, q) on which a flip is committed has
\* p # q, muls[p] = muls[q] # 0 and permit[p][q] = 1; and for a slot list of
\* length l >= 3 every index x < combs[l] = l * (l - 1) selects two distinct
\* positions below l in the pair tables.
C27_CommittedPairs ==
    [][/\ (pc = "flip" /\ pc' = "collapse_p") =>
            LET p == loc'.p
                q == loc'.q
            IN  /\ p # q
                /\ muls[p] = muls[q]
                /\ muls[p] # 0
                /\ permit(p, q, symm) = 1
       /\ \A v \in DOMAIN uniques :
            LET l == Len(slots(v))
                tab == PairTable(1, l)
            IN  l >= 3 =>
                  /\ Len(tab) = l * (l - 1)
                  /\ \A x \in 1..Len(tab) :
                        /\ tab[x][1] \in 0..(l - 1)
                        /\ tab[x][2] \in 0..(l - 1)
                        /\ tab[x][1] # tab[x][2]
      ]_vars

\* C28: a plus move is never executed in a state where achieved >= maxplus; once
\* plusby has been set to flimit * 1007 because achieved >= maxplus, no plus move
\* runs until achieved has dropped below maxplus.
C28_NoPlusAtCap ==
    [][PlusStep => achieved < maxplus]_vars

\* C28, as the program has it: a plus move is executed in a state where
\* achieved >= maxplus only when a collapse block of the same iteration found
\* every colliding value inside one orbit and forced plusby = flips, or when
\* flips has reached the value flimit * 1007 that the cap put into plusby; a
\* plus move due at flips + plimit or at the random delay never runs with
\* achieved >= maxplus.
C28_PlusAtCapOnlyForced ==
    [][(PlusStep /\ achieved >= maxplus) =>
         \/ /\ plusby = flips
            /\ TriggerNow
            /\ CollapsesP \/ CollapsesQ
         \/ /\ plusby = vlong(flimit * 1007)
            /\ flips >= vlong(flimit * 1007)
      ]_vars

\* C28 witness: a forced plus move has taken achieved from the cap to above it
C28_Witness ==
    /\ pc = "tick"
    /\ loc # NoLoc
    /\ plus = symm
    /\ achieved >= maxplus + symm
    /\ plusby = vlong(flimit * 1007)
    /\ flips < plusby
    /\ CollapsesP \/ CollapsesQ

\* a step of a collapse block that runs to its end
CollapseStep ==
    /\ pc \in {"collapse_p", "collapse_q"}
    /\ achieved' = achieved - symm

\* C29: limit is recomputed only inside a collapse block in which achieved falls
\* strictly below the previous minmuls and is still above target; every other
\* step of the loop (a flip that collapses nothing, a collapse that ties or stays
\* above minmuls, a plus move, a recovery snapshot) leaves limit unchanged;
\* best is overwritten on every collapse with achieved <= minmuls, and only there.
C29_LimitAndBestUpdates ==
    [][/\ (pc # "start" /\ ~(CollapseStep /\ achieved' < minmuls /\ achieved' > target))
            => limit' = limit
       /\ (CollapseStep /\ achieved' < minmuls /\ achieved' > target) =>
            limit' = (IF limitsteps(termination, achieved', target, symm) = 0
                      THEN flips
                      ELSE updatelimit(limit, flips, termination, split, achieved',
                                       target, symm, flimit))
       /\ (CollapseStep /\ achieved' <= minmuls) => best' = muls'
       /\ ~(CollapseStep /\ achieved' <= minmuls) => best' = best
      ]_vars

\* C29 witness: a second collapse has tied the minimum: best is the scheme of
\* that collapse and limit is the one computed at the first
C29_Witness ==
    /\ pc \in {"collapse_q", "plus"}
    /\ loc # NoLoc
    /\ plus > 0
    /\ achieved = minmuls
    /\ best = muls
    /\ flips > symm
    /\ limit # updatelimit(limit, flips, termination, split, achieved, target,
                           symm, flimit)

\* C30: for symm = 3, with maxplus <= nomuls and a triple-consistent input,
\* whenever a plus move executes the scan for a zero slot ends with r < nomuls,
\* r is the first slot of a triple and the three slots of that triple are zero
\* before the move, so the writes to the triple of r stay in bounds and
\* overwrite no live term.
C30_PlusFindsFreeTriple ==
    [][(/\ symm = 3
        /\ maxplus <= nomuls
        /\ PlusReady
        /\ pc' \in {"tick", "ub"}) => FreeTriple(FirstZero)]_vars

(***************************************************************************)
(* Runs of three iterations, for the claim about the start of every        *)
(* iteration after the first: symm = 3, three triples, flimit = 3 * symm.  *)
(***************************************************************************)
LongTerms == {<<0, 0, 0>>, <<1, 2, 3>>, <<1, 2, 1>>, <<2, 2, 2>>}

LongInit ==
    /\ symm = 3
    /\ nomuls = MaxSlots3
    /\ \E trs \in [0..((nomuls \div 3) - 1) -> LongTerms] :
          muls = [i \in 0..(nomuls - 1) |-> trs[i \div 3][(i % 3) + 1]]
    /\ best = muls
    /\ maxsize \in {0, 2}
    /\ termination = 0
    /\ target = 0
    /\ flimit = 3 * symm
    /\ maxplus = nomuls
    /\ split = 50
    /\ flips = 0
    /\ SetMapInit(InitMap(EmptyMap(nomuls), 0, muls, nomuls))
    /\ achieved = InitAchieved(muls)
    /\ plus = 0
    /\ minmuls = 0
    /\ limit = 0
    /\ plusby = 0
    /\ rcode = 0
    /\ recovery = 0
    /\ pc = "start"
    /\ loc = NoLoc
    /\ plimit = 2 * symm
    /\ file = [kind |-> "input", rcode |-> 0, flips |-> 0, plimit |-> plimit,
               achieved |-> 0, minmuls |-> 0, plus |-> 0, vals |-> muls]

LongSpec == LongInit /\ [][Next]_vars

\* C31: for symm = 3, at the start of every flip iteration after the first, C is
\* non-empty and some colliding value has two slots p, q with permit[p][q] = 1,
\* so that the retry loop of the maxsize = 0 sampler can succeed.
C31_PermittedPairExists ==
    (symm = 3 /\ pc = "flip" /\ flips > 0) =>
        /\ Len(twoplusl) > 0
        /\ \E pq \in SamplePairs : permit(pq[1], pq[2], symm) = 1

\* C31 witness: the third iteration starts after a collapse and the plus move
\* that its trigger check forced
C31_Witness ==
    /\ symm = 3
    /\ pc = "flip"
    /\ flips = 2 * symm
    /\ plus > 0
    /\ minmuls < achieved
    /\ \E pq \in SamplePairs : permit(pq[1], pq[2], symm) = 1

\* C32: at termination the number of nonzero values of the decomposition
\* written to the file equals the minmuls written in the header: the written
\* values are best when minmuls < achieved and muls when minmuls = achieved,
\* and either has exactly minmuls live slots.
C32_WrittenLiveCount ==
    (pc = "exit" /\ file.kind = "final") =>
        /\ file.minmuls <= file.achieved
        /\ file.vals = (IF file.minmuls < file.achieved THEN best ELSE muls)
        /\ Cardinality({s \in DOMAIN file.vals : file.vals[s] # 0}) = file.minmuls

\* C33: with termination in {0, 1}, initial flips <= flimit and target a
\* multiple of symm below the initial achieved, limit <= flimit holds in every
\* reachable state, so that no flip iteration entered through the budget tick
\* begins with flips >= flimit.
C33_LimitWithinBudget ==
    (/\ termination \in {0, 1}
     /\ target % symm = 0
     /\ file.kind = "input"
     /\ target < InitAchieved(file.vals)
     /\ pc # "start") =>
        /\ limit <= flimit
        /\ (pc = "flip" /\ flips > 0) => flips < flimit
====
